---- MODULE Spec2Model ----
(***************************************************************************)
(* A model of hord/db/mod.rs: the compacted-block codec, the blocks table, *)
(* the inscriptions table, the ingestion pipeline with its sequential      *)
(* post-processor, and the satoshi-point resolver.                         *)
(*                                                                         *)
(* Representation:                                                         *)
(*   Option<T>          a sequence of length <= 1 (None = <<>>)            *)
(*   String             a sequence of one-character strings                *)
(*   Vec<T>, [u8; 4]    sequences                                          *)
(*   CompactedBlock     <<<<coinbase_txid, coinbase_value>>, txs>> with    *)
(*                      txs a sequence of <<txid, inputs, outputs>> and an *)
(*                      input <<txin, block_height, vout, value>>          *)
(*   Result of a call that may panic   [ok |-> BOOLEAN, val |-> ...]       *)
(* Naturals of the model stay below 2^31 (the checker's integers).         *)
(***************************************************************************)
EXTENDS Integers, Sequences, FiniteSets, TLC

VARIABLES
    \* ---- blocks table of hord.sqlite: height -> compacted_bytes
    blocks,
    \* ---- update_hord_db / fetch_and_cache_blocks_in_hord_db
    start_block, end_block, network_thread, block_tx,
    hash_next, hash_active, block_hash_ch,
    disp_pc, data_job, block_data_ch, rpc_malformed,
    comp_pc, comp_job, block_compressed_ch,
    main_pc, blocks_stored, put_log,
    block_ch, post_pc, cursor, inbox, standardized, augmented, discarded, fed,
    \* ---- the chain served by the RPC collaborator and the resolver's locals
    chain, r_pc, r_arg, ordinal_offset, ordinal_block_number, tx_cursor,
    r_prev, r_reads,
    \* ---- codec driver
    c_pc, c_raw, c_full, c_std, c_hex, c_dec, c_found, c_inserted,
    \* ---- inscriptions table of hord.sqlite (inscription_id -> row), the last
    \* ---- call made on it, the table before that call and what it returned
    inscriptions, i_op, i_prev, i_res, i_calls

storeVars == <<blocks>>
pipeVars == <<start_block, end_block, network_thread, block_tx,
              hash_next, hash_active, block_hash_ch,
              disp_pc, data_job, block_data_ch, rpc_malformed,
              comp_pc, comp_job, block_compressed_ch,
              main_pc, blocks_stored, put_log>>
postVars == <<block_ch, post_pc, cursor, inbox, standardized, augmented, discarded, fed>>
resVars == <<chain, r_pc, r_arg, ordinal_offset, ordinal_block_number, tx_cursor,
             r_prev, r_reads>>
codecVars == <<c_pc, c_raw, c_full, c_std, c_hex, c_dec, c_found, c_inserted>>
inscVars == <<inscriptions, i_op, i_prev, i_res, i_calls>>
vars == <<storeVars, pipeVars, postVars, resVars, codecVars, inscVars>>

----------------------------------------------------------------------------
\* Option, Result and small helpers

None == <<>>
Some(x) == <<x>>
IsSome(o) == Len(o) = 1
Unwrap(o) == o[1]

Ok(x) == [ok |-> TRUE, val |-> x]
Panic == [ok |-> FALSE, val |-> <<>>]

RECURSIVE Sum(_)
Sum(s) == IF s = <<>> THEN 0 ELSE Head(s) + Sum(Tail(s))

RECURSIVE Concat(_)
Concat(ss) == IF ss = <<>> THEN <<>> ELSE Head(ss) \o Concat(Tail(ss))

Range(s) == {s[i] : i \in 1..Len(s)}

Min(a, b) == IF a < b THEN a ELSE b

Max(a, b) == IF a < b THEN b ELSE a

\* `x as u16`: the low 16 bits
AsU16(n) == n % 65536

\* `x as u32`: the low 32 bits; every natural of the model is below 2^31
AsU32(n) == n

----------------------------------------------------------------------------
\* hex crate: encode (lowercase) and decode (either case, even length)

HexLower == <<"0","1","2","3","4","5","6","7","8","9","a","b","c","d","e","f">>
HexUpper == <<"0","1","2","3","4","5","6","7","8","9","A","B","C","D","E","F">>

IsHexChar(c) == \E n \in 1..16 : HexLower[n] = c \/ HexUpper[n] = c

HexVal(c) == (CHOOSE n \in 1..16 : HexLower[n] = c \/ HexUpper[n] = c) - 1

hex_encode(bytes) ==
    [i \in 1..(2 * Len(bytes)) |->
        LET b == bytes[(i + 1) \div 2]
        IN  IF i % 2 = 1 THEN HexLower[(b \div 16) + 1] ELSE HexLower[(b % 16) + 1]]

hex_decode(str) ==
    IF Len(str) % 2 # 0 \/ \E i \in 1..Len(str) : ~IsHexChar(str[i])
    THEN Panic
    ELSE Ok([i \in 1..(Len(str) \div 2) |->
                16 * HexVal(str[2 * i - 1]) + HexVal(str[2 * i])])

\* [txid[0], txid[1], txid[2], txid[3]] of hex::decode(str).unwrap()
TxidPrefix(str) ==
    LET d == hex_decode(str)
    IN  IF d.ok /\ Len(d.val) >= 4 THEN Ok(SubSeq(d.val, 1, 4)) ELSE Panic

\* &s[2..]: the string without its first two characters
Skip2(str) == SubSeq(str, 3, Len(str))

----------------------------------------------------------------------------
\* ciborium: the CBOR encoding serde derives for CompactedBlock.  Tuples,
\* arrays and Vecs are definite-length arrays (major type 4), integers are
\* unsigned (major type 0) in the shortest form.

\* Mutant of CborHead: 24 written in the one-byte form
CborHead_Short24(major, n) ==
    IF n <= 24 THEN <<major * 32 + n>>
    ELSE IF n < 256 THEN <<major * 32 + 24, n>>
    ELSE IF n < 65536 THEN <<major * 32 + 25, n \div 256, n % 256>>
    ELSE <<major * 32 + 26, n \div 16777216, (n \div 65536) % 256,
           (n \div 256) % 256, n % 256>>

CborHead(major, n) ==
    IF n < 24 THEN <<major * 32 + n>>
    ELSE IF n < 256 THEN <<major * 32 + 24, n>>
    ELSE IF n < 65536 THEN <<major * 32 + 25, n \div 256, n % 256>>
    ELSE <<major * 32 + 26, n \div 16777216, (n \div 65536) % 256,
           (n \div 256) % 256, n % 256>>

CborUInt(n) == CborHead(0, n)

CborArray(items) == CborHead(4, Len(items)) \o Concat(items)

CborTxid(p) == CborArray([i \in 1..Len(p) |-> CborUInt(p[i])])

CborInput(inp) ==
    CborArray(<<CborTxid(inp[1]), CborUInt(inp[2]), CborUInt(inp[3]), CborUInt(inp[4])>>)

CborTx(tx) ==
    CborArray(<<CborTxid(tx[1]),
                CborArray([i \in 1..Len(tx[2]) |-> CborInput(tx[2][i])]),
                CborArray([i \in 1..Len(tx[3]) |-> CborUInt(tx[3][i])])>>)

CborBlock(b) ==
    CborArray(<<CborArray(<<CborTxid(b[1][1]), CborUInt(b[1][2])>>),
                CborArray([i \in 1..Len(b[2]) |-> CborTx(b[2][i])])>>)

\* Length in bytes of the head that starts with byte b (0: a form the encoder
\* never writes and the model does not read)
HeadLen(b) ==
    LET info == b % 32
    IN  IF info < 24 THEN 1 ELSE IF info = 24 THEN 2 ELSE IF info = 25 THEN 3
        ELSE IF info = 26 THEN 5 ELSE 0

\* The argument of the head at bytes[pos]
HeadArg(bytes, pos) ==
    LET info == bytes[pos] % 32
    IN  IF info < 24 THEN info
        ELSE IF info = 24 THEN bytes[pos + 1]
        ELSE IF info = 25 THEN bytes[pos + 1] * 256 + bytes[pos + 2]
        ELSE (bytes[pos + 1] % 128) * 16777216 + bytes[pos + 2] * 65536
             + bytes[pos + 3] * 256 + bytes[pos + 4]

ItemsFail == [ok |-> FALSE, items |-> <<>>, next |-> 0]

\* `count` data items read from bytes[pos..]: [ok, items, next], an item
\* [arr |-> it is an array, n |-> its argument, items |-> its elements]
RECURSIVE CborItems(_, _, _)
CborItems(bytes, pos, count) ==
    IF count = 0 THEN [ok |-> TRUE, items |-> <<>>, next |-> pos]
    ELSE IF pos > Len(bytes) THEN ItemsFail
    ELSE
    LET major == bytes[pos] \div 32
        len == HeadLen(bytes[pos])
    IN  IF len = 0 \/ pos + len - 1 > Len(bytes) \/ major \notin {0, 4} THEN ItemsFail
        ELSE
        LET arg == HeadArg(bytes, pos)
            sub == IF major = 4 THEN CborItems(bytes, pos + len, arg)
                   ELSE [ok |-> TRUE, items |-> <<>>, next |-> pos + len]
        IN  IF ~sub.ok THEN ItemsFail
            ELSE
            LET rest == CborItems(bytes, sub.next, count - 1)
            IN  IF ~rest.ok THEN ItemsFail
                ELSE [ok |-> TRUE,
                      items |-> <<[arr |-> major = 4, n |-> arg, items |-> sub.items]>>
                                \o rest.items,
                      next |-> rest.next]

\* Whether n fits an unsigned integer of `bits` bits (u32 and u64 hold every
\* natural of the model)
Fits(n, bits) == IF bits = 8 THEN n < 256 ELSE IF bits = 16 THEN n < 65536 ELSE TRUE

\* serde's typed view of an item: u<bits>, a tuple of `len` elements, a Vec
IsUInt(v, bits) == ~v.arr /\ Fits(v.n, bits)

IsTuple(v, len) == v.arr /\ v.n = len

IsTxidItem(v) == IsTuple(v, 4) /\ \A i \in 1..4 : IsUInt(v.items[i], 8)

IsInputItem(v) ==
    /\ IsTuple(v, 4)
    /\ IsTxidItem(v.items[1])
    /\ IsUInt(v.items[2], 32) /\ IsUInt(v.items[3], 16) /\ IsUInt(v.items[4], 64)

IsTxItem(v) ==
    /\ IsTuple(v, 3)
    /\ IsTxidItem(v.items[1])
    /\ v.items[2].arr /\ \A i \in 1..Len(v.items[2].items) : IsInputItem(v.items[2].items[i])
    /\ v.items[3].arr /\ \A i \in 1..Len(v.items[3].items) : IsUInt(v.items[3].items[i], 64)

IsBlockItem(v) ==
    /\ IsTuple(v, 2)
    /\ IsTuple(v.items[1], 2)
    /\ IsTxidItem(v.items[1].items[1]) /\ IsUInt(v.items[1].items[2], 64)
    /\ v.items[2].arr /\ \A i \in 1..Len(v.items[2].items) : IsTxItem(v.items[2].items[i])

TxidOfItem(v) == [i \in 1..4 |-> v.items[i].n]

InputOfItem(v) == <<TxidOfItem(v.items[1]), v.items[2].n, v.items[3].n, v.items[4].n>>

TxOfItem(v) ==
    <<TxidOfItem(v.items[1]),
      [i \in 1..Len(v.items[2].items) |-> InputOfItem(v.items[2].items[i])],
      [i \in 1..Len(v.items[3].items) |-> v.items[3].items[i].n]>>

BlockOfItem(v) ==
    <<<<TxidOfItem(v.items[1].items[1]), v.items[1].items[2].n>>,
      [i \in 1..Len(v.items[2].items) |-> TxOfItem(v.items[2].items[i])]>>

\* ciborium::de::from_reader into a CompactedBlock (bytes after the value are
\* not read)
ParseBlock(bytes) ==
    LET r == CborItems(bytes, 1, 1)
    IN  IF r.ok /\ IsBlockItem(r.items[1]) THEN Ok(BlockOfItem(r.items[1])) ELSE Panic

----------------------------------------------------------------------------
\* CompactedBlock

\* The RPC collaborator's BitcoinBlockFullBreakdown:
\*   [height, tx], a tx [txid, vin, vout], an input [txid, vout, prevout], all
\*   three Options, a prevout [height, value], an output [value] (satoshis)
from_full_block(block) ==
    IF block.tx = <<>> THEN Panic
    ELSE
    LET coinbase_txid == TxidPrefix(block.tx[1].txid)
        coinbase_value ==
            Sum([i \in 1..Len(block.tx[1].vout) |-> block.tx[1].vout[i].value])
        InputOk(input) ==
            /\ IsSome(input.txid) /\ TxidPrefix(Unwrap(input.txid)).ok
            /\ IsSome(input.prevout) /\ IsSome(input.vout)
        Input(input) ==
            <<TxidPrefix(Unwrap(input.txid)).val,
              AsU32(Unwrap(input.prevout).height),
              AsU16(Unwrap(input.vout)),
              Unwrap(input.prevout).value>>
        TxOk(tx) ==
            /\ \A i \in 1..Len(tx.vin) : InputOk(tx.vin[i])
            /\ TxidPrefix(tx.txid).ok
        Tx(tx) ==
            <<TxidPrefix(tx.txid).val,
              [i \in 1..Len(tx.vin) |-> Input(tx.vin[i])],
              [i \in 1..Len(tx.vout) |-> tx.vout[i].value]>>
        rest == Tail(block.tx)
    IN  IF coinbase_txid.ok /\ \A i \in 1..Len(rest) : TxOk(rest[i])
        THEN Ok(<<<<coinbase_txid.val, coinbase_value>>,
                  [i \in 1..Len(rest) |-> Tx(rest[i])]>>)
        ELSE Panic

\* Mutant of StdTxidPrefix: the "0x" prefix is not stripped
StdTxidPrefix_NoStrip(hash) == TxidPrefix(hash)

\* hex::decode(&hash[2..]).unwrap() and its first four bytes
StdTxidPrefix(hash) == IF Len(hash) < 2 THEN Panic ELSE TxidPrefix(Skip2(hash))

\* The standardized BitcoinBlockData:
\*   [block_identifier, transactions], a transaction
\*   [transaction_identifier |-> [hash], metadata |-> [inputs, outputs]], an
\*   input [previous_output |-> [txid, vout, block_height, value]], an output [value]
from_standardized_block(block) ==
    IF block.transactions = <<>> THEN Panic
    ELSE
    LET first == block.transactions[1]
        coinbase_txid == StdTxidPrefix(first.transaction_identifier.hash)
        coinbase_value ==
            Sum([i \in 1..Len(first.metadata.outputs) |-> first.metadata.outputs[i].value])
        Input(input) ==
            <<StdTxidPrefix(input.previous_output.txid).val,
              AsU32(input.previous_output.block_height),
              AsU16(input.previous_output.vout),
              input.previous_output.value>>
        TxOk(tx) ==
            /\ \A i \in 1..Len(tx.metadata.inputs) :
                  StdTxidPrefix(tx.metadata.inputs[i].previous_output.txid).ok
            /\ StdTxidPrefix(tx.transaction_identifier.hash).ok
        Tx(tx) ==
            <<StdTxidPrefix(tx.transaction_identifier.hash).val,
              [i \in 1..Len(tx.metadata.inputs) |-> Input(tx.metadata.inputs[i])],
              [i \in 1..Len(tx.metadata.outputs) |-> tx.metadata.outputs[i].value]>>
        rest == Tail(block.transactions)
    IN  IF coinbase_txid.ok /\ \A i \in 1..Len(rest) : TxOk(rest[i])
        THEN Ok(<<<<coinbase_txid.val, coinbase_value>>,
                  [i \in 1..Len(rest) |-> Tx(rest[i])]>>)
        ELSE Panic

to_hex_bytes(block) == hex_encode(CborBlock(block))

from_hex_bytes(bytes) ==
    LET decoded == hex_decode(bytes)
    IN  IF decoded.ok THEN ParseBlock(decoded.val) ELSE Panic

\* The standardize collaborator, as the specification describes its result:
\* same transactions in the same order, "0x"-prefixed ids, the coinbase input
\* (no txid) left out, an error when a spent output is not annotated.
standardize_bitcoin_block(raw) ==
    LET Spends(tx) == SelectSeq(tx.vin, LAMBDA input : IsSome(input.txid))
        InputOk(input) == IsSome(input.prevout) /\ IsSome(input.vout)
        Input(input) ==
            [previous_output |->
                [txid |-> <<"0", "x">> \o Unwrap(input.txid),
                 vout |-> Unwrap(input.vout),
                 block_height |-> Unwrap(input.prevout).height,
                 value |-> Unwrap(input.prevout).value]]
        Tx(tx) ==
            [transaction_identifier |-> [hash |-> <<"0", "x">> \o tx.txid],
             metadata |->
                [inputs |-> [i \in 1..Len(Spends(tx)) |-> Input(Spends(tx)[i])],
                 outputs |-> [i \in 1..Len(tx.vout) |-> [value |-> tx.vout[i].value]]]]
    IN  IF \A i \in 1..Len(raw.tx) : \A j \in 1..Len(Spends(raw.tx[i])) :
               InputOk(Spends(raw.tx[i])[j])
        THEN Ok([block_identifier |-> [index |-> raw.height],
                 transactions |-> [i \in 1..Len(raw.tx) |-> Tx(raw.tx[i])]])
        ELSE Panic

----------------------------------------------------------------------------
\* blocks table

\* Mutant of insert_entry_in_blocks: INSERT OR REPLACE
insert_entry_in_blocks_Replace(table, block_id, compacted_block) ==
    IF block_id \in DOMAIN table
    THEN [table EXCEPT ![block_id] = to_hex_bytes(compacted_block)]
    ELSE table @@ (block_id :> to_hex_bytes(compacted_block))

\* INSERT INTO blocks (id, compacted_bytes): a row with this id makes the
\* statement fail on the primary key; the error is logged and the table kept
insert_entry_in_blocks(table, block_id, compacted_block) ==
    IF block_id \in DOMAIN table THEN table
    ELSE table @@ (block_id :> to_hex_bytes(compacted_block))

\* SELECT compacted_bytes FROM blocks WHERE id = ?: Ok(Option<CompactedBlock>),
\* or the panic of from_hex_bytes
find_compacted_block_at_block_height(block_height, table) ==
    IF block_height \notin DOMAIN table THEN Ok(None)
    ELSE LET b == from_hex_bytes(table[block_height])
         IN  IF b.ok THEN Ok(Some(b.val)) ELSE Panic

EmptyTable == <<>>

----------------------------------------------------------------------------
\* Codec driver: one raw block taken through compaction, the hex form and the
\* blocks table

first_inscription_block_height == 767430

\* Longest transaction list (coinbase aside) of a block of the codec driver
MaxCodecTxs == 2

\* A 32-byte transaction id in its hex form, from its first bytes
TxidOf(first) == hex_encode(first \o [i \in 1..(32 - Len(first)) |-> 0])

CoinbaseVin == <<[txid |-> None, vout |-> None, prevout |-> None]>>

Vin(txid, vout, height, value) ==
    [txid |-> Some(txid), vout |-> Some(vout),
     prevout |-> Some([height |-> height, value |-> value])]

Vout(values) == [i \in 1..Len(values) |-> [value |-> values[i]]]

CodecTxids == {TxidOf(<<0, 0, 0, 0, 1>>), TxidOf(<<255, 24, 23, 171, 2>>)}

CodecVins ==
    {<<Vin(TxidOf(<<0, 0, 0, 0>>), 0, 0, 0)>>,
     <<Vin(TxidOf(<<255, 24, 23, 171, 3>>), 65535, 767429, 65536),
       Vin(TxidOf(<<1, 2, 3, 4>>), 65537, 65535, 2147483647)>>}

CodecVouts == {Vout(<<24>>), Vout(<<256, 0, 625000000>>)}

CodecCoinbaseVouts == {Vout(<<0>>), Vout(<<625000000, 23>>)}

CodecTxs == [txid : CodecTxids, vin : CodecVins, vout : CodecVouts]

CodecRawBlocks ==
    [height : {first_inscription_block_height},
     tx : {<<[txid |-> t, vin |-> CoinbaseVin, vout |-> o]>> \o rest :
             t \in CodecTxids, o \in CodecCoinbaseVouts,
             rest \in UNION {[1..k -> CodecTxs] : k \in 0..MaxCodecTxs}}]

\* A row left by an earlier run
StaleBlock == <<<<<<9, 9, 9, 9>>, 1>>, <<>>>>

PipeIdle ==
    /\ start_block = 0 /\ end_block = 0 /\ network_thread = 0 /\ block_tx = FALSE
    /\ hash_next = 0 /\ hash_active = {} /\ block_hash_ch = <<>>
    /\ disp_pc = "idle" /\ data_job = None /\ block_data_ch = <<>> /\ rpc_malformed = {}
    /\ comp_pc = "idle" /\ comp_job = None /\ block_compressed_ch = <<>>
    /\ main_pc = "idle" /\ blocks_stored = 0 /\ put_log = <<>>

PostIdle ==
    /\ block_ch = <<>> /\ post_pc = "idle" /\ cursor = 0 /\ inbox = {}
    /\ standardized = <<>> /\ augmented = <<>> /\ discarded = {} /\ fed = 0

ResIdle ==
    /\ chain = <<>> /\ r_pc = "idle" /\ r_arg = <<>> /\ ordinal_offset = 0
    /\ ordinal_block_number = 0 /\ tx_cursor = <<>> /\ r_prev = <<>> /\ r_reads = {}

CodecIdle ==
    /\ c_pc = "idle" /\ c_raw = <<>> /\ c_full = Panic /\ c_std = Panic
    /\ c_hex = <<>> /\ c_dec = Panic /\ c_found = Panic /\ c_inserted = FALSE

InscIdle ==
    /\ inscriptions = <<>> /\ i_op = <<>> /\ i_prev = <<>> /\ i_res = Panic /\ i_calls = 0

CodecInit ==
    /\ PipeIdle /\ PostIdle /\ ResIdle /\ InscIdle
    /\ c_raw \in CodecRawBlocks
    /\ blocks \in {EmptyTable, c_raw.height :> to_hex_bytes(StaleBlock)}
    /\ c_pc = "raw" /\ c_full = Panic /\ c_std = Panic
    /\ c_hex = <<>> /\ c_dec = Panic /\ c_found = Panic /\ c_inserted = FALSE

CompactFull ==
    /\ c_pc = "raw"
    /\ c_full' = from_full_block(c_raw)
    /\ c_pc' = "full"
    /\ UNCHANGED <<storeVars, pipeVars, postVars, resVars,
                   c_raw, c_std, c_hex, c_dec, c_found, c_inserted, inscVars>>

CompactStandardized ==
    /\ c_pc = "full"
    /\ LET std == standardize_bitcoin_block(c_raw)
       IN  c_std' = IF std.ok THEN from_standardized_block(std.val) ELSE Panic
    /\ c_pc' = "std"
    /\ UNCHANGED <<storeVars, pipeVars, postVars, resVars,
                   c_raw, c_full, c_hex, c_dec, c_found, c_inserted, inscVars>>

ToHex ==
    /\ c_pc = "std" /\ c_full.ok
    /\ c_hex' = to_hex_bytes(c_full.val)
    /\ c_pc' = "hex"
    /\ UNCHANGED <<storeVars, pipeVars, postVars, resVars,
                   c_raw, c_full, c_std, c_dec, c_found, c_inserted, inscVars>>

FromHex ==
    /\ c_pc = "hex"
    /\ c_dec' = from_hex_bytes(c_hex)
    /\ c_pc' = "dec"
    /\ UNCHANGED <<storeVars, pipeVars, postVars, resVars,
                   c_raw, c_full, c_std, c_hex, c_found, c_inserted, inscVars>>

InsertEntry ==
    /\ c_pc = "dec"
    /\ blocks' = insert_entry_in_blocks(blocks, c_raw.height, c_full.val)
    /\ c_inserted' = (c_raw.height \notin DOMAIN blocks)
    /\ c_pc' = "inserted"
    /\ UNCHANGED <<pipeVars, postVars, resVars,
                   c_raw, c_full, c_std, c_hex, c_dec, c_found, inscVars>>

FindEntry ==
    /\ c_pc = "inserted"
    /\ c_found' = find_compacted_block_at_block_height(c_raw.height, blocks)
    /\ c_pc' = "found"
    /\ UNCHANGED <<storeVars, pipeVars, postVars, resVars,
                   c_raw, c_full, c_std, c_hex, c_dec, c_inserted, inscVars>>

CodecNext ==
    \/ CompactFull \/ CompactStandardized \/ ToHex \/ FromHex
    \/ InsertEntry \/ FindEntry

SpecCodec == CodecInit /\ [][CodecNext]_vars

\* C9: from_hex_bytes(to_hex_bytes(x)) = x for every compacted block x, and a
\* block that insert_entry_in_blocks stored at a height is read back equal by
\* find_compacted_block_at_block_height at that height.
C9_CodecRoundTrip ==
    /\ c_pc \in {"dec", "inserted", "found"} => c_dec = Ok(c_full.val)
    /\ (c_pc = "found" /\ c_inserted) => c_found = Ok(Some(c_full.val))

C9_Witness ==
    /\ c_pc = "found" /\ c_inserted
    /\ Len(c_full.val[2]) = MaxCodecTxs
    /\ \E i \in 1..Len(c_full.val[2]) : Len(c_full.val[2][i][2]) = 2
    /\ c_full.val[1][2] >= 65536

\* C10: from_full_block of a raw block equals from_standardized_block of the
\* standardized block derived from it.
C10_CompactionEquivalence ==
    c_pc \in {"std", "hex", "dec", "inserted", "found"} => (c_full.ok /\ c_std = c_full)

C10_Witness ==
    /\ c_pc = "std" /\ c_full.ok
    /\ Len(c_full.val[2]) = MaxCodecTxs
    /\ \E i \in 1..Len(c_full.val[2]) :
          \E j \in 1..Len(c_full.val[2][i][2]) : c_raw.tx[i + 1].vin[j].vout[1] >= 65536

----------------------------------------------------------------------------
\* update_hord_db and fetch_and_cache_blocks_in_hord_db
\*
\* A channel is the sequence of its messages in flight.  A raw block, and the
\* compacted block made from it, is carried by its height: BlockData gives
\* the block the RPC collaborator answered for that height.

\* Lowest start_block: first_inscription_block_height - StartBelow
StartBelow == 1
\* Highest start_block: first_inscription_block_height + StartAbove
StartAbove == 1
\* Longest range: end_block - start_block <= MaxRange
MaxRange == 2
\* Largest network_thread
MaxThreads == 2

HeightBytes(h) == <<h % 256, (h \div 256) % 256, (h \div 65536) % 256>>

\* The block of the chain at height h: a coinbase and one transaction that
\* spends the coinbase of the block before
FullBlockAt(h) ==
    [height |-> h,
     tx |-> <<[txid |-> TxidOf(HeightBytes(h) \o <<0>>),
               vin |-> CoinbaseVin,
               vout |-> Vout(<<625001000>>)],
              [txid |-> TxidOf(HeightBytes(h) \o <<1>>),
               vin |-> <<Vin(TxidOf(HeightBytes(h - 1) \o <<0>>), 0, h - 1, 625000000)>>,
               vout |-> Vout(<<600000000, 24999000>>)]>>]

\* The same block answered without the annotation of the spent output
UnannotatedBlockAt(h) ==
    [FullBlockAt(h) EXCEPT
        !.tx[2].vin[1] = [txid |-> @.txid, vout |-> @.vout, prevout |-> None]]

BlockData(h) == IF h \in rpc_malformed THEN UnannotatedBlockAt(h) ELSE FullBlockAt(h)

\* The hash pool runs the jobs of start_block..end_block in the order of
\* submission, network_thread at a time
HashPoolStart(start, end, threads) == start .. (Min(end, start + threads) - 1)

\* Mutant of SeedingComplete: the persister stops one block early
SeedingComplete_Early(stored, start, end) == stored >= end - start - 1

\* blocks_stored == end_block - start_block
SeedingComplete(stored, start, end) == stored = end - start

PostInit(spawned) ==
    /\ block_ch = <<>>
    /\ post_pc = IF spawned THEN "recv" ELSE "none"
    /\ cursor = first_inscription_block_height
    /\ inbox = {}
    /\ standardized = <<>> /\ augmented = <<>> /\ discarded = {} /\ fed = 0

PipeInit ==
    /\ ResIdle /\ CodecIdle /\ InscIdle
    /\ start_block \in (first_inscription_block_height - StartBelow)
                       .. (first_inscription_block_height + StartAbove)
    /\ end_block \in start_block .. (start_block + MaxRange)
    /\ blocks \in {EmptyTable, start_block :> to_hex_bytes(StaleBlock)}
    /\ network_thread \in 1..MaxThreads
    /\ block_tx \in BOOLEAN
    /\ hash_next = Min(end_block, start_block + network_thread)
    /\ hash_active = HashPoolStart(start_block, end_block, network_thread)
    /\ block_hash_ch = <<>>
    /\ disp_pc = "recv" /\ data_job = None /\ block_data_ch = <<>> /\ rpc_malformed = {}
    /\ comp_pc = "recv" /\ comp_job = None /\ block_compressed_ch = <<>>
    /\ main_pc = "persist" /\ blocks_stored = 0 /\ put_log = <<>>
    /\ PostInit(block_tx)

\* A job of retrieve_block_hash_pool: the hash is fetched and (height, hash)
\* sent; the worker takes the next queued job
RetrieveBlockHash(h) ==
    /\ h \in hash_active
    /\ block_hash_ch' = Append(block_hash_ch, Some(h))
    /\ hash_active' = (hash_active \ {h})
                       \cup (IF hash_next < end_block THEN {hash_next} ELSE {})
    /\ hash_next' = IF hash_next < end_block THEN hash_next + 1 ELSE hash_next
    /\ UNCHANGED <<storeVars, start_block, end_block, network_thread, block_tx,
                   disp_pc, data_job, block_data_ch, rpc_malformed,
                   comp_pc, comp_job, block_compressed_ch,
                   main_pc, blocks_stored, put_log, postVars, resVars, codecVars, inscVars>>

\* Mutant of JoinedJobSend: the job ran beside the jobs submitted before it
\* and its message is not the last one
JoinedJobSend_Unjoined(ch, msg) == <<msg>> \o ch

\* The send of a pool job that was joined before the next one was submitted:
\* the jobs before it have sent theirs, the message goes behind them
JoinedJobSend(ch, msg) == Append(ch, msg)

\* "Block data retrieval": block_hash_rx.recv(); a pair is handed to the pool,
\* anything else ends the thread
DispatcherRecv ==
    /\ disp_pc = "recv" /\ block_hash_ch # <<>>
    /\ block_hash_ch' = Tail(block_hash_ch)
    /\ IF IsSome(Head(block_hash_ch))
       THEN data_job' = Head(block_hash_ch) /\ disp_pc' = "join"
       ELSE data_job' = None /\ disp_pc' = "done"
    /\ UNCHANGED <<storeVars, start_block, end_block, network_thread, block_tx,
                   hash_next, hash_active, block_data_ch, rpc_malformed,
                   comp_pc, comp_job, block_compressed_ch,
                   main_pc, blocks_stored, put_log, postVars, resVars, codecVars, inscVars>>

\* The job of retrieve_block_data_pool, and the join that waits for it: the
\* collaborator answers the block, annotated or not
RetrieveBlockData ==
    /\ disp_pc = "join" /\ IsSome(data_job)
    /\ \E annotated \in BOOLEAN :
          rpc_malformed' = IF annotated THEN rpc_malformed
                           ELSE rpc_malformed \cup {Unwrap(data_job)}
    /\ block_data_ch' = JoinedJobSend(block_data_ch, data_job)
    /\ data_job' = None
    /\ disp_pc' = "recv"
    /\ UNCHANGED <<storeVars, start_block, end_block, network_thread, block_tx,
                   hash_next, hash_active, block_hash_ch,
                   comp_pc, comp_job, block_compressed_ch,
                   main_pc, blocks_stored, put_log, postVars, resVars, codecVars, inscVars>>

\* "Block data compression": block_data_rx.recv()
CompressionRecv ==
    /\ comp_pc = "recv" /\ block_data_ch # <<>>
    /\ block_data_ch' = Tail(block_data_ch)
    /\ IF IsSome(Head(block_data_ch))
       THEN comp_job' = Some([height |-> Unwrap(Head(block_data_ch)), stage |-> "compact"])
            /\ comp_pc' = "join"
       ELSE comp_job' = None /\ comp_pc' = "done"
    /\ UNCHANGED <<storeVars, start_block, end_block, network_thread, block_tx,
                   hash_next, hash_active, block_hash_ch,
                   disp_pc, data_job, rpc_malformed, block_compressed_ch,
                   main_pc, blocks_stored, put_log, postVars, resVars, codecVars, inscVars>>

\* The job of compress_block_data_pool up to block_tx.send: a panic of
\* from_full_block ends the job (the join returns, nothing is sent); the send
\* to a post-processor that has returned is dropped
CompressBlock ==
    /\ comp_pc = "join" /\ IsSome(comp_job) /\ Unwrap(comp_job).stage = "compact"
    /\ LET h == Unwrap(comp_job).height
       IN  IF from_full_block(BlockData(h)).ok
           THEN /\ comp_job' = Some([height |-> h, stage |-> "emit"])
                /\ comp_pc' = comp_pc
                /\ block_ch' = IF block_tx /\ post_pc \in {"recv", "drain"}
                               THEN Append(block_ch, h) ELSE block_ch
           ELSE /\ comp_job' = None
                /\ comp_pc' = "recv"
                /\ block_ch' = block_ch
    /\ UNCHANGED <<storeVars, start_block, end_block, network_thread, block_tx,
                   hash_next, hash_active, block_hash_ch,
                   disp_pc, data_job, block_data_ch, rpc_malformed, block_compressed_ch,
                   main_pc, blocks_stored, put_log,
                   post_pc, cursor, inbox, standardized, augmented, discarded, fed,
                   resVars, codecVars, inscVars>>

\* The rest of the job, block_compressed_tx.send, and the join
EmitCompressed ==
    /\ comp_pc = "join" /\ IsSome(comp_job) /\ Unwrap(comp_job).stage = "emit"
    /\ block_compressed_ch' = JoinedJobSend(block_compressed_ch, Some(Unwrap(comp_job).height))
    /\ comp_job' = None
    /\ comp_pc' = "recv"
    /\ UNCHANGED <<storeVars, start_block, end_block, network_thread, block_tx,
                   hash_next, hash_active, block_hash_ch,
                   disp_pc, data_job, block_data_ch, rpc_malformed,
                   main_pc, blocks_stored, put_log, postVars, resVars, codecVars, inscVars>>

\* The persister loop of fetch_and_cache_blocks_in_hord_db: one received
\* block is stored and counted; the last one sends the two sentinels and
\* returns Ok (to update_hord_db, which then joins the post-processor)
StoreCompacted ==
    /\ main_pc = "persist" /\ block_compressed_ch # <<>>
    /\ LET h == Unwrap(Head(block_compressed_ch))
           done == SeedingComplete(blocks_stored + 1, start_block, end_block)
       IN  /\ blocks' = insert_entry_in_blocks(blocks, h, from_full_block(BlockData(h)).val)
           /\ put_log' = Append(put_log, h)
           /\ blocks_stored' = blocks_stored + 1
           /\ block_data_ch' = IF done THEN Append(block_data_ch, None) ELSE block_data_ch
           /\ block_hash_ch' = IF done THEN Append(block_hash_ch, None) ELSE block_hash_ch
           /\ main_pc' = IF ~done THEN "persist"
                         ELSE IF block_tx THEN "fetched" ELSE "returned"
    /\ block_compressed_ch' = Tail(block_compressed_ch)
    /\ UNCHANGED <<start_block, end_block, network_thread, block_tx,
                   hash_next, hash_active, disp_pc, data_job, rpc_malformed,
                   comp_pc, comp_job, postVars, resVars, codecVars, inscVars>>

\* Mutant of IndexingEnded: the join returns only for a thread that left by
\* the end of its receive loop
IndexingEnded_CleanOnly(pc) == pc = "exited"

\* handle.join() returns once the thread's closure has returned, by the end
\* of the receive loop or by one of the two `return`s of the inner loop
IndexingEnded(pc) == pc \in {"exited", "failed_standardize", "failed_augment"}

\* update_hord_db: handle.join() and Ok(())
JoinIndexing ==
    /\ main_pc = "fetched"
    /\ IndexingEnded(post_pc)
    /\ main_pc' = "returned"
    /\ UNCHANGED <<storeVars, start_block, end_block, network_thread, block_tx,
                   hash_next, hash_active, block_hash_ch,
                   disp_pc, data_job, block_data_ch, rpc_malformed,
                   comp_pc, comp_job, block_compressed_ch,
                   blocks_stored, put_log, postVars, resVars, codecVars, inscVars>>

\* Mutant of BelowActivation: no block is below the cutoff
BelowActivation_Never(height) == FALSE

\* raw_block.height < first_inscription_block_height
BelowActivation(height) == height < first_inscription_block_height

\* "Inscriptions indexing": block_rx.recv() and the code up to the inner loop
IndexingRecv ==
    /\ post_pc = "recv" /\ block_ch # <<>>
    /\ block_ch' = Tail(block_ch)
    /\ LET block_height == Head(block_ch)
       IN  IF BelowActivation(block_height)
           THEN /\ discarded' = discarded \cup {block_height}
                /\ UNCHANGED <<inbox, post_pc>>
           ELSE /\ inbox' = inbox \cup {block_height}
                /\ post_pc' = IF block_height # cursor THEN "recv" ELSE "drain"
                /\ UNCHANGED discarded
    /\ UNCHANGED <<storeVars, pipeVars, cursor, standardized, augmented, fed,
                   resVars, codecVars, inscVars>>

\* Mutant of CursorAfter: the cursor moves on whatever the collaborator returned
CursorAfter_Always(c, outcome) == c + 1

\* cursor += 1, reached only when both collaborators returned Ok
CursorAfter(c, outcome) == IF outcome = "ok" THEN c + 1 ELSE c

\* One turn of `while let Some(next_block) = inbox.remove(&cursor)`: the block
\* is standardized, then augmented; an error of either collaborator returns
\* from the thread
IndexingDrain ==
    /\ post_pc = "drain"
    /\ \E outcome \in {"ok", "standardize_err", "augment_err"} :
          /\ inbox' = inbox \ {cursor}
          /\ standardized' = Append(standardized, cursor)
          /\ augmented' = IF outcome = "standardize_err" THEN augmented
                          ELSE Append(augmented, cursor)
          /\ cursor' = CursorAfter(cursor, outcome)
          /\ post_pc' = IF outcome = "standardize_err" THEN "failed_standardize"
                        ELSE IF outcome = "augment_err" THEN "failed_augment"
                        ELSE IF cursor' \in inbox' THEN "drain" ELSE "recv"
    /\ UNCHANGED <<storeVars, pipeVars, block_ch, discarded, fed, resVars, codecVars, inscVars>>

\* block_rx.recv() fails once the channel is empty and every sender is gone:
\* the compression thread, which owns block_tx, has ended
IndexingExit ==
    /\ post_pc = "recv" /\ block_ch = <<>> /\ comp_pc = "done"
    /\ post_pc' = "exited"
    /\ UNCHANGED <<storeVars, pipeVars, block_ch, cursor, inbox, standardized,
                   augmented, discarded, fed, resVars, codecVars, inscVars>>

PipeNext ==
    \/ \E h \in hash_active : RetrieveBlockHash(h)
    \/ DispatcherRecv \/ RetrieveBlockData
    \/ CompressionRecv \/ CompressBlock \/ EmitCompressed
    \/ StoreCompacted \/ JoinIndexing
    \/ IndexingRecv \/ IndexingDrain \/ IndexingExit

Spec == PipeInit /\ [][PipeNext]_vars

FetchReturned == main_pc \in {"fetched", "returned"}

\* No thread of update_hord_db can take a step: every pool job has ended,
\* every thread is blocked in a recv on an empty channel (or has ended), and
\* the caller is blocked or has returned
PipeQuiescent ==
    /\ hash_active = {}
    /\ ~(disp_pc = "recv" /\ block_hash_ch # <<>>)
    /\ ~(disp_pc = "join" /\ IsSome(data_job))
    /\ ~(comp_pc = "recv" /\ block_data_ch # <<>>)
    /\ ~(comp_pc = "join" /\ IsSome(comp_job))
    /\ ~(main_pc = "persist" /\ block_compressed_ch # <<>>)
    /\ ~(main_pc = "fetched" /\ IndexingEnded(post_pc))
    /\ ~(post_pc = "recv" /\ block_ch # <<>>)
    /\ post_pc # "drain"
    /\ ~(post_pc = "recv" /\ block_ch = <<>> /\ comp_pc = "done")

----------------------------------------------------------------------------
\* The post-processor alone, fed by an arbitrary holder of block_tx

\* Lowest height fed: first_inscription_block_height - FeedBelow
FeedBelow == 2
\* Highest height fed: first_inscription_block_height + FeedAbove
FeedAbove == 1
\* Number of blocks fed
MaxFeed == 4

FeedInit ==
    /\ PipeIdle /\ ResIdle /\ CodecIdle /\ InscIdle
    /\ blocks = EmptyTable
    /\ PostInit(TRUE)

\* block_tx.send(raw_block): dropped when the receiver is gone
Feed(h) ==
    /\ comp_pc = "idle" /\ fed < MaxFeed
    /\ fed' = fed + 1
    /\ block_ch' = IF post_pc \in {"recv", "drain"} THEN Append(block_ch, h) ELSE block_ch
    /\ UNCHANGED <<storeVars, pipeVars, post_pc, cursor, inbox, standardized,
                   augmented, discarded, resVars, codecVars, inscVars>>

\* The last clone of block_tx is dropped
FeedClose ==
    /\ comp_pc = "idle"
    /\ comp_pc' = "done"
    /\ UNCHANGED <<storeVars, start_block, end_block, network_thread, block_tx,
                   hash_next, hash_active, block_hash_ch,
                   disp_pc, data_job, block_data_ch, rpc_malformed,
                   comp_job, block_compressed_ch, main_pc, blocks_stored, put_log,
                   postVars, resVars, codecVars, inscVars>>

FeedNext ==
    \/ \E h \in (first_inscription_block_height - FeedBelow)
                .. (first_inscription_block_height + FeedAbove) : Feed(h)
    \/ FeedClose
    \/ IndexingRecv \/ IndexingDrain \/ IndexingExit

SpecPost == FeedInit /\ [][FeedNext]_vars

----------------------------------------------------------------------------
\* Properties of the pipeline and of the post-processor

\* The heights lo, lo + 1, ..., hi - 1
Ascending(lo, hi) == [i \in 1 .. Max(0, hi - lo) |-> lo + i - 1]

\* C1 (monotonic cursor): when update_hord_db has returned and neither
\* collaborator failed, augmentation was invoked exactly once for every height
\* of [start_block, end_block) that is at or above the activation height, in
\* ascending order
C1_MonotonicCursor ==
    (block_tx /\ main_pc = "returned" /\ post_pc = "exited")
        => augmented = Ascending(Max(start_block, first_inscription_block_height),
                                 end_block)

\* The part of C1 that the code meets: ranges that start at or below the
\* activation height
MonotonicCursorFromActivation ==
    (block_tx /\ main_pc = "returned" /\ post_pc = "exited"
        /\ start_block <= first_inscription_block_height)
        => augmented = Ascending(first_inscription_block_height, end_block)

\* C2 (completion termination): while every block is answered well-formed,
\* fetch_and_cache_blocks_in_hord_db has returned Ok or can still take a
\* step, and when it has returned it made exactly end_block - start_block
\* calls of insert_entry_in_blocks
C2_CompletionTermination ==
    rpc_malformed = {}
        => /\ FetchReturned \/ ENABLED PipeNext
           /\ FetchReturned => Len(put_log) = end_block - start_block

\* C3 (gap-free store): once fetch_and_cache_blocks_in_hord_db has returned
\* Ok, every height of [start_block, end_block) has its row in blocks (a
\* table keyed by id holds at most one row for a height), and every call of
\* insert_entry_in_blocks was for a different height of the range
C3_GapFreeStore ==
    FetchReturned
        => /\ \A h \in start_block .. (end_block - 1) : h \in DOMAIN blocks
           /\ Range(put_log) = start_block .. (end_block - 1)
           /\ Len(put_log) = Cardinality(Range(put_log))

\* The workers completed out of order and the longest range was stored
C3_Witness ==
    /\ FetchReturned
    /\ end_block - start_block = MaxRange
    /\ put_log[1] > put_log[2]

\* C4 (gap-free sequential augmentation): whatever was received, the heights
\* for which augmentation was invoked are activation, activation + 1, ... in
\* this order, and the cursor is the activation height plus the number of
\* successful augmentations
C4_SequentialAugmentation ==
    /\ augmented = Ascending(first_inscription_block_height,
                             first_inscription_block_height + Len(augmented))
    /\ cursor = first_inscription_block_height + Len(augmented)
                    - (IF post_pc = "failed_augment" THEN 1 ELSE 0)

\* Blocks arrived out of order and twice, and two were augmented
C4_Witness ==
    /\ Len(augmented) >= 2
    /\ fed = MaxFeed
    /\ post_pc = "exited"
    /\ inbox # {}

\* C5 (activation cutoff): a block below the activation height is never in
\* the inbox, never standardized, never augmented, and receiving it changes
\* neither cursor nor inbox
C5_ActivationCutoff ==
    /\ [](/\ \A h \in inbox : h >= first_inscription_block_height
          /\ \A h \in Range(standardized) : h >= first_inscription_block_height
          /\ \A h \in Range(augmented) : h >= first_inscription_block_height)
    /\ [][(/\ post_pc = "recv" /\ block_ch # <<>>
           /\ block_ch' = Tail(block_ch)
           /\ Head(block_ch) < first_inscription_block_height)
             => (/\ cursor' = cursor /\ inbox' = inbox /\ post_pc' = post_pc
                 /\ standardized' = standardized /\ augmented' = augmented)]_vars

\* Scenario S6: two blocks below the activation height were discarded and the
\* block at the activation height was augmented
C5_Witness ==
    /\ Cardinality(discarded) = 2
    /\ augmented = <<first_inscription_block_height>>

\* One of the two collaborators returned an error and the thread returned
PostFailed == post_pc \in {"failed_standardize", "failed_augment"}

\* The heights insert_entry_in_blocks was called for
Persisted == Range(put_log)

\* Every height of [start_block, end_block) was persisted, one call each
AllPersisted ==
    /\ Len(put_log) = end_block - start_block
    /\ Persisted = start_block .. (end_block - 1)
    /\ \A h \in start_block .. (end_block - 1) : h \in DOMAIN blocks

\* C14 (post-processor failure isolation): when a collaborator has returned
\* an error for the block at the cursor, the failing block is the last one
\* handed to a collaborator and no block above the cursor was augmented; from
\* then on the post-processor does nothing more; and while every block
\* compacts, the persister still stores all end_block - start_block blocks:
\* they are stored whenever fetch_and_cache_blocks_in_hord_db has returned,
\* and when no thread can take a step update_hord_db has returned Ok
C14_PostProcessorFailureIsolation ==
    /\ [](PostFailed =>
            /\ standardized # <<>> /\ standardized[Len(standardized)] = cursor
            /\ \A i \in 1 .. Len(augmented) : augmented[i] <= cursor
            /\ (rpc_malformed = {} /\ FetchReturned) => AllPersisted
            /\ (rpc_malformed = {} /\ PipeQuiescent)
                   => main_pc = "returned" /\ AllPersisted)
    /\ [][PostFailed => UNCHANGED <<post_pc, cursor, inbox, standardized, augmented>>]_vars

\* Augmentation failed for the first block of a range of two: the second
\* block was never augmented, both were persisted and the call returned
C14_Witness ==
    /\ post_pc = "failed_augment"
    /\ rpc_malformed = {}
    /\ cursor = start_block /\ end_block = start_block + 2
    /\ augmented = <<cursor>>
    /\ main_pc = "returned"
    /\ put_log = <<start_block + 1, start_block>>

\* C15 (codec failure isolation): when the compaction of one block of the
\* range has failed and no thread can take a step any more, every other block
\* of the range was persisted and fetch_and_cache_blocks_in_hord_db has
\* returned
C15_CodecFailureIsolation ==
    (Cardinality(rpc_malformed) = 1 /\ PipeQuiescent)
        => /\ \A h \in (start_block .. (end_block - 1)) \ rpc_malformed : h \in Persisted
           /\ FetchReturned

\* The part of C15 that the code meets: the blocks that compact are persisted
OtherBlocksPersisted ==
    PipeQuiescent
        => \A h \in (start_block .. (end_block - 1)) \ rpc_malformed : h \in Persisted

\* What the code does instead of completing: the persister waits in its recv
\* for a block that no job will send
PersisterStuck ==
    (rpc_malformed # {} /\ PipeQuiescent)
        => main_pc = "persist" /\ blocks_stored < end_block - start_block

----------------------------------------------------------------------------
\* retrieve_satoshi_point_using_local_storage
\*
\* The store is seeded block by block with consistent blocks: an input spends
\* an unspent output of an earlier block at its value, and no transaction
\* pays out more than it takes in.  chain keeps the raw blocks the rows of
\* blocks were compacted from.

\* Highest block seeded
MaxHeight == 4
\* Largest value a coinbase mints on top of the fees
MaxSubsidy == 1

\* The outputs of the chain, each named by <<height, index of the
\* transaction, index of the output>>
Outpoints(c) ==
    {y \in (1..Len(c)) \X (1..2) \X (1..2) :
        /\ y[2] <= Len(c[y[1]].tx)
        /\ y[3] <= Len(c[y[1]].tx[y[2]].vout)}

\* The input that spends the output x
Spend(c, x) ==
    Vin(c[x[1]].tx[x[2]].txid, x[3] - 1, x[1], c[x[1]].tx[x[2]].vout[x[3]].value)

Spent(c) ==
    {c[x[1]].tx[2].vin[x[2]] :
        x \in {y \in (1..Len(c)) \X (1..2) :
                    /\ Len(c[y[1]].tx) = 2
                    /\ y[2] <= Len(c[y[1]].tx[2].vin)}}

Unspent(c) == {x \in Outpoints(c) : Spend(c, x) \notin Spent(c)}

\* x is an older output than y
Older(x, y) ==
    \/ x[1] < y[1]
    \/ x[1] = y[1] /\ x[2] < y[2]
    \/ x[1] = y[1] /\ x[2] = y[2] /\ x[3] < y[3]

InputValue(input) == Unwrap(input.prevout).value

\* The transactions a block may carry besides its coinbase: none, or one that
\* spends one unspent output or two (the older first), whole (less a fee of
\* 0 or 1) or, with two inputs, split in two outputs of the inputs' values
CandidateTxs(c, h) ==
    LET ins == {<<Spend(c, x)>> : x \in Unspent(c)}
               \cup {<<Spend(c, x[1]), Spend(c, x[2])>> :
                        x \in {y \in Unspent(c) \X Unspent(c) : Older(y[1], y[2])}}
        total(i) == Sum([k \in 1..Len(i) |-> InputValue(i[k])])
        outs(i) == {Vout(<<total(i) - fee>>) : fee \in {f \in {0, 1} : f <= total(i)}}
                   \cup (IF Len(i) = 2
                         THEN {Vout(<<InputValue(i[1]), InputValue(i[2])>>)}
                         ELSE {})
    IN  {<<>>}
        \cup {<<[txid |-> TxidOf(<<h, 1, 0, 0, 7>>), vin |-> io[1], vout |-> io[2]]>> :
                io \in {x \in ins \X UNION {outs(i) : i \in ins} : x[2] \in outs(x[1])}}

TxFee(tx) ==
    Sum([k \in 1..Len(tx.vin) |-> InputValue(tx.vin[k])])
        - Sum([k \in 1..Len(tx.vout) |-> tx.vout[k].value])

ResInit ==
    /\ PipeIdle /\ PostIdle /\ CodecIdle /\ ResIdle /\ InscIdle
    /\ blocks = EmptyTable

\* The next block is compacted and stored, as the persister does
SeedBlock ==
    /\ r_pc = "idle" /\ Len(chain) < MaxHeight
    /\ \E subsidy \in 0..MaxSubsidy, txs \in CandidateTxs(chain, Len(chain) + 1) :
          LET h == Len(chain) + 1
              fees == IF txs = <<>> THEN 0 ELSE TxFee(txs[1])
              raw == [height |-> h,
                      tx |-> <<[txid |-> TxidOf(<<h, 0, 0, 0, 7>>),
                                vin |-> CoinbaseVin,
                                vout |-> Vout(<<subsidy + fees>>)]>> \o txs]
          IN  /\ chain' = Append(chain, raw)
              /\ blocks' = insert_entry_in_blocks(blocks, h, from_full_block(raw).val)
    /\ UNCHANGED <<pipeVars, postVars, codecVars, r_pc, r_arg, ordinal_offset,
                   ordinal_block_number, tx_cursor, r_prev, r_reads, inscVars>>

----------------------------------------------------------------------------
\* The resolver.  Its state between two turns of the loop is the triple
\* (ordinal_block_number, ordinal_offset, tx_cursor).

Config(b, o, c) == [block |-> b, offset |-> o, cursor |-> c]

\* The sum of the first j elements
SumTo(seq, j) == Sum(SubSeq(seq, 1, j))

\* The least element of a non-empty set of numbers
MinOf(S) == CHOOSE x \in S : \A y \in S : x <= y

InputValues(inputs) == [i \in 1..Len(inputs) |-> inputs[i][4]]

\* Mutant of PickInput: the input must exceed the target
PickInput_Strict(inputs, target) ==
    LET vals == InputValues(inputs)
        js == {j \in 1..Len(inputs) : SumTo(vals, j) > target}
    IN  IF js = {} THEN None
        ELSE LET j == MinOf(js)
             IN  Some(Config(inputs[j][2],
                             target - (SumTo(vals, j) - vals[j]),
                             <<inputs[j][1], inputs[j][3]>>))

\* The loop over the inputs: the first input at which sats_in >= target gives
\* the new offset, block number and cursor; None when no input does
PickInput(inputs, target) ==
    LET vals == InputValues(inputs)
        js == {j \in 1..Len(inputs) : SumTo(vals, j) >= target}
    IN  IF js = {} THEN None
        ELSE LET j == MinOf(js)
             IN  Some(Config(inputs[j][2],
                             target - (SumTo(vals, j) - vals[j]),
                             <<inputs[j][1], inputs[j][3]>>))

\* ordinal_offset.lt(coinbase_value)
CoinbaseNative(offset, coinbase_value) == offset < coinbase_value

\* Mutant of FeeBranch: the accumulated fees need only reach cut_off
FeeBranch_AtCutOff(txs, cut_off, cfg) ==
    LET fees == [i \in 1..Len(txs) |-> Sum(InputValues(txs[i][2])) - Sum(txs[i][3])]
        neg == {k \in 1..Len(txs) : fees[k] < 0}
        hits == {k \in 1..Len(txs) : SumTo(fees, k) >= cut_off /\ \A n \in neg : k < n}
    IN  IF hits # {}
        THEN LET p == PickInput(txs[MinOf(hits)][2], Sum(txs[MinOf(hits)][3]))
             IN  [pc |-> "loop", cfg |-> IF IsSome(p) THEN Unwrap(p) ELSE cfg]
        ELSE IF neg # {} THEN [pc |-> "panicked", cfg |-> cfg]
        ELSE [pc |-> "loop", cfg |-> cfg]

\* "loop over the transaction fees": the first transaction at which the
\* accumulated fees exceed cut_off has its inputs searched for total_out.
\* total_in - total_out below zero overflows (a panic with overflow checks).
FeeBranch(txs, cut_off, cfg) ==
    LET fees == [i \in 1..Len(txs) |-> Sum(InputValues(txs[i][2])) - Sum(txs[i][3])]
        neg == {k \in 1..Len(txs) : fees[k] < 0}
        hits == {k \in 1..Len(txs) : SumTo(fees, k) > cut_off /\ \A n \in neg : k < n}
    IN  IF hits # {}
        THEN LET p == PickInput(txs[MinOf(hits)][2], Sum(txs[MinOf(hits)][3]))
             IN  [pc |-> "loop", cfg |-> IF IsSome(p) THEN Unwrap(p) ELSE cfg]
        ELSE IF neg # {} THEN [pc |-> "panicked", cfg |-> cfg]
        ELSE [pc |-> "loop", cfg |-> cfg]

\* "isolate the target transaction": every transaction whose prefix is txid
\* (the cursor's at the start of the turn) is evaluated in turn, each with
\* the offset and vout the one before left
RECURSIVE NormalBranch(_, _, _, _)
NormalBranch(txs, i, txid, cfg) ==
    IF i > Len(txs) THEN cfg
    ELSE IF txs[i][1] # txid THEN NormalBranch(txs, i + 1, txid, cfg)
    ELSE LET outputs == txs[i][3]
             sats_out == SumTo(outputs, Min(cfg.cursor[2], Len(outputs))) + cfg.offset
             p == PickInput(txs[i][2], sats_out)
         IN  NormalBranch(txs, i + 1, txid, IF IsSome(p) THEN Unwrap(p) ELSE cfg)

\* One turn of the loop on the block res
Turn(res, cfg) ==
    IF res[1][1] = cfg.cursor[1]
    THEN IF CoinbaseNative(cfg.offset, res[1][2])
         THEN [pc |-> "returned", cfg |-> cfg]
         ELSE FeeBranch(res[2], cfg.offset - res[1][2], cfg)
    ELSE [pc |-> "loop", cfg |-> NormalBranch(res[2], 1, cfg.cursor[1], cfg)]

\* Height::starting_sat of the first subsidy epoch (5,000,000,000 sat a
\* block), as a u64 in two limbs of base 10^9
starting_sat(h) == [hi |-> 5 * h, lo |-> 0]

\* u64 addition on the two limbs
AddU64(a, n) ==
    [hi |-> a.hi + ((a.lo + n) \div 1000000000), lo |-> (a.lo + n) % 1000000000]

\* The lines before the loop
ResolveStart(h, t) ==
    /\ r_pc = "idle"
    /\ h \in 1..Len(chain) /\ t \in 1..Len(chain[h].tx)
    /\ LET hash == <<"0", "x">> \o chain[h].tx[t].txid
           txid == StdTxidPrefix(hash)
       IN  /\ r_arg' = <<h, hash>>
           /\ ordinal_offset' = 0
           /\ ordinal_block_number' = AsU32(h)
           /\ IF txid.ok
              THEN r_pc' = "loop" /\ tx_cursor' = <<txid.val, 0>>
              ELSE r_pc' = "panicked" /\ tx_cursor' = tx_cursor
    /\ r_prev' = None
    /\ r_reads' = {}
    /\ UNCHANGED <<storeVars, pipeVars, postVars, codecVars, chain, inscVars>>

\* The turn's outcome for what find_compacted_block_at_block_height returned
TurnOutcome(found, cfg) ==
    IF ~found.ok THEN [pc |-> "panicked", cfg |-> cfg]
    ELSE IF ~IsSome(found.val) THEN [pc |-> "failed", cfg |-> cfg]
    ELSE Turn(Unwrap(found.val), cfg)

\* One turn of the loop, the return included
ResolveTurn ==
    /\ r_pc = "loop"
    /\ \E found \in {find_compacted_block_at_block_height(ordinal_block_number, blocks)} :
       \E out \in {TurnOutcome(found,
                               Config(ordinal_block_number, ordinal_offset, tx_cursor))} :
          /\ r_pc' = out.pc
          /\ ordinal_block_number' = out.cfg.block
          /\ ordinal_offset' = out.cfg.offset
          /\ tx_cursor' = out.cfg.cursor
    /\ r_prev' = Some(Config(ordinal_block_number, ordinal_offset, tx_cursor))
    /\ r_reads' = r_reads \cup {ordinal_block_number}
    /\ UNCHANGED <<storeVars, pipeVars, postVars, codecVars, chain, r_arg, inscVars>>

\* Ok((ordinal_block_number, ordinal_offset, ordinal_number))
SatoshiPoint ==
    <<ordinal_block_number, ordinal_offset,
      AddU64(starting_sat(ordinal_block_number), ordinal_offset)>>

ResNext ==
    \/ SeedBlock
    \/ \E h \in 1..MaxHeight, t \in 1..2 : ResolveStart(h, t)
    \/ ResolveTurn

SpecRes == ResInit /\ [][ResNext]_vars

----------------------------------------------------------------------------
\* Properties of the resolver

\* The resolver's state now
ResolverConfig == Config(ordinal_block_number, ordinal_offset, tx_cursor)

\* The last turn did not return and left the resolver's state as it found
\* it: every later turn does the same
Spinning == r_pc = "loop" /\ r_prev = Some(ResolverConfig)

\* The resolver was called for the coinbase of the stored block at r_arg[1]
CoinbaseCall ==
    /\ r_pc # "idle"
    /\ r_arg[1] \in DOMAIN blocks
    /\ r_arg[2] = <<"0", "x">> \o chain[r_arg[1]].tx[1].txid

\* The stored block at height h
CoinbaseValueBlock(h) == Unwrap(find_compacted_block_at_block_height(h, blocks).val)

\* The coinbase_value of the stored block at height h
CoinbaseValueAt(h) == Unwrap(find_compacted_block_at_block_height(h, blocks).val)[1][2]

\* C6 (resolver invariant): a turn of the loop that does not return ends
\* with ordinal_block_number strictly smaller than at its start
C6_ResolverInvariant ==
    (r_pc = "loop" /\ IsSome(r_prev))
        => ordinal_block_number < Unwrap(r_prev).block

\* C7 (resolver termination): on a consistent store the resolver returns
\* after finitely many turns: no turn leaves the loop where it was
C7_ResolverTermination == ~Spinning

\* The same on stores whose coinbases all have a positive value
ResolverTerminationPositiveCoinbase ==
    (\A h \in DOMAIN blocks : CoinbaseValueAt(h) > 0) => ~Spinning

\* C8 (ordinal-number identity): a call for the coinbase of the stored block
\* at height h returns Ok((h, 0, starting_sat(h))) in its first turn, having
\* read the block at h only
C8_OrdinalNumberIdentity ==
    CoinbaseCall
        => \/ r_pc = "loop" /\ r_reads = {}
           \/ /\ r_pc = "returned"
              /\ SatoshiPoint = <<r_arg[1], 0, starting_sat(r_arg[1])>>
              /\ r_reads = {r_arg[1]}

\* The part of C8 that the code meets: coinbases of positive value
OrdinalNumberIdentityPositiveCoinbase ==
    (CoinbaseCall /\ CoinbaseValueAt(r_arg[1]) > 0)
        => \/ r_pc = "loop" /\ r_reads = {}
           \/ /\ r_pc = "returned"
              /\ SatoshiPoint = <<r_arg[1], 0, starting_sat(r_arg[1])>>
              /\ r_reads = {r_arg[1]}

----------------------------------------------------------------------------
\* The inscriptions table
\*
\* The table is a function from inscription_id (the PRIMARY KEY) to the other
\* six columns.  A statement that fails is logged and changes nothing.

\* The columns created by initialize_hord_db
InscriptionColumns ==
    {"inscription_id", "block_height", "block_hash", "outpoint_to_watch",
     "ordinal_number", "inscription_number", "offset"}

\* Connection::prepare: a statement naming a column the table does not have
\* is an error ("no such column")
prepare(columns) == columns \subseteq InscriptionColumns

\* Mutant of StripOffsetMarker: one character is removed
StripOffsetMarker_One(satpoint) == SubSeq(satpoint, 1, Len(satpoint) - 1)

\* &satpoint_post_inscription[0..satpoint_post_inscription.len()-2]
StripOffsetMarker(satpoint) == SubSeq(satpoint, 1, Len(satpoint) - 2)

\* INSERT INTO inscriptions ...: Panic when the slice is out of range, the
\* table unchanged when the key is taken
store_new_inscription(table, inscription_data, block_identifier) ==
    IF Len(inscription_data.satpoint_post_inscription) < 2 THEN Panic
    ELSE IF inscription_data.inscription_id \in DOMAIN table THEN Ok(table)
    ELSE Ok(table @@
            (inscription_data.inscription_id :>
                [outpoint_to_watch |->
                     StripOffsetMarker(inscription_data.satpoint_post_inscription),
                 ordinal_number |-> inscription_data.ordinal_number,
                 inscription_number |-> inscription_data.inscription_number,
                 offset |-> 0,
                 block_height |-> block_identifier.index,
                 block_hash |-> block_identifier.hash]))

\* Mutant of update_transfered_inscription: the WHERE clause is missing
update_transfered_inscription_NoWhere(table, inscription_id, outpoint_post_transfer, offset) ==
    [id \in DOMAIN table |->
        [table[id] EXCEPT !.outpoint_to_watch = outpoint_post_transfer,
                          !.offset = offset]]

\* UPDATE inscriptions SET outpoint_to_watch = ?, offset = ? WHERE inscription_id = ?
update_transfered_inscription(table, inscription_id, outpoint_post_transfer, offset) ==
    [id \in DOMAIN table |->
        IF id = inscription_id
        THEN [table[id] EXCEPT !.outpoint_to_watch = outpoint_post_transfer,
                               !.offset = offset]
        ELSE table[id]]

\* DELETE FROM inscriptions WHERE inscription_id = ?1
remove_entry_from_inscriptions(table, inscription_id) ==
    [id \in DOMAIN table \ {inscription_id} |-> table[id]]

\* The orders in which SELECT ... ORDER BY key ASC may return the rows ids:
\* ascending in key, rows of equal key in any order
OrderedBy(table, ids, key(_)) ==
    {order \in [1..Cardinality(ids) -> ids] :
        /\ \A i, j \in DOMAIN order : i # j => order[i] # order[j]
        /\ \A i, j \in DOMAIN order : i < j => key(table[order[i]]) <= key(table[order[j]])}

OffsetOf(row) == row.offset

InscriptionNumberOf(row) == row.inscription_number

\* What find_inscriptions_at_wached_outpoint may return
find_inscriptions_at_wached_outpoint(outpoint, table) ==
    IF ~prepare({"inscription_id", "inscription_number", "ordinal_number", "offset",
                 "outpoint_to_watch"})
    THEN {Panic}
    ELSE {Ok([i \in DOMAIN order |->
                <<order[i], table[order[i]].inscription_number,
                  table[order[i]].ordinal_number, table[order[i]].offset>>]) :
            order \in OrderedBy(table,
                                {id \in DOMAIN table : table[id].outpoint_to_watch = outpoint},
                                OffsetOf)}

\* What find_all_inscriptions may return: its statement selects block_number
find_all_inscriptions(table) ==
    IF ~prepare({"inscription_id", "inscription_number", "ordinal_number", "block_number"})
    THEN {Panic}
    ELSE {Ok([i \in DOMAIN order |->
                <<order[i], table[order[i]].inscription_number,
                  table[order[i]].ordinal_number, table[order[i]].block_height>>]) :
            order \in OrderedBy(table, DOMAIN table, InscriptionNumberOf)}

\* Calls made on the table
MaxInscriptionCalls == 4

Str(word) == CASE word = "a:0" -> <<"a", ":", "0">>
               [] word = "b:0" -> <<"b", ":", "0">>
               [] word = "a:10" -> <<"a", ":", "1", "0">>
               [] word = "a:" -> <<"a", ":">>
               [] word = "a" -> <<"a">>
               [] word = "b" -> <<"b">>
               [] word = "0" -> <<"0">>

\* The reveals of the augmentation collaborator: inscription numbers need not
\* follow the order of the calls, and a satpoint may be too short to slice
Reveals ==
    {[inscription_id |-> "i1", satpoint_post_inscription |-> Str("a:0"),
      ordinal_number |-> 700, inscription_number |-> 2],
     [inscription_id |-> "i2", satpoint_post_inscription |-> Str("a:10"),
      ordinal_number |-> 500, inscription_number |-> 1],
     [inscription_id |-> "i2", satpoint_post_inscription |-> Str("b:0"),
      ordinal_number |-> 900, inscription_number |-> 2],
     [inscription_id |-> "i3", satpoint_post_inscription |-> Str("a:0"),
      ordinal_number |-> 600, inscription_number |-> 3],
     [inscription_id |-> "i3", satpoint_post_inscription |-> Str("0"),
      ordinal_number |-> 600, inscription_number |-> 3]}

RevealBlocks == {[index |-> 767430, hash |-> "0xaa"], [index |-> 767431, hash |-> "0xbb"]}

InscriptionIds == {"i1", "i2", "i3"}

Outpoints_Watched == {Str("a"), Str("b"), Str("a:")}

TransferOffsets == {0, 42}

InscInit ==
    /\ PipeIdle /\ PostIdle /\ ResIdle /\ CodecIdle
    /\ blocks = EmptyTable
    /\ inscriptions = <<>> /\ i_op = <<>> /\ i_prev = <<>> /\ i_res = Panic /\ i_calls = 0

StoreNewInscription(inscription_data, block_identifier) ==
    /\ i_calls < MaxInscriptionCalls
    /\ \E res \in {store_new_inscription(inscriptions, inscription_data, block_identifier)} :
          /\ inscriptions' = IF res.ok THEN res.val ELSE inscriptions
          /\ i_res' = IF res.ok THEN Ok(<<>>) ELSE Panic
    /\ i_op' = [op |-> "store_new_inscription", inscription_data |-> inscription_data,
                block_identifier |-> block_identifier]
    /\ i_prev' = inscriptions
    /\ i_calls' = i_calls + 1
    /\ UNCHANGED <<storeVars, pipeVars, postVars, resVars, codecVars>>

UpdateTransferedInscription(inscription_id, outpoint_post_transfer, offset) ==
    /\ i_calls < MaxInscriptionCalls
    /\ inscriptions' = update_transfered_inscription(inscriptions, inscription_id,
                                                     outpoint_post_transfer, offset)
    /\ i_res' = Ok(<<>>)
    /\ i_op' = [op |-> "update_transfered_inscription", inscription_id |-> inscription_id,
                outpoint_post_transfer |-> outpoint_post_transfer, offset |-> offset]
    /\ i_prev' = inscriptions
    /\ i_calls' = i_calls + 1
    /\ UNCHANGED <<storeVars, pipeVars, postVars, resVars, codecVars>>

RemoveEntryFromInscriptions(inscription_id) ==
    /\ i_calls < MaxInscriptionCalls
    /\ inscriptions' = remove_entry_from_inscriptions(inscriptions, inscription_id)
    /\ i_res' = Ok(<<>>)
    /\ i_op' = [op |-> "remove_entry_from_inscriptions", inscription_id |-> inscription_id]
    /\ i_prev' = inscriptions
    /\ i_calls' = i_calls + 1
    /\ UNCHANGED <<storeVars, pipeVars, postVars, resVars, codecVars>>

FindInscriptionsAtWachedOutpoint(outpoint) ==
    /\ i_calls < MaxInscriptionCalls
    /\ i_res' \in find_inscriptions_at_wached_outpoint(outpoint, inscriptions)
    /\ i_op' = [op |-> "find_inscriptions_at_wached_outpoint", outpoint |-> outpoint]
    /\ i_prev' = inscriptions
    /\ i_calls' = i_calls + 1
    /\ UNCHANGED <<storeVars, pipeVars, postVars, resVars, codecVars, inscriptions>>

FindAllInscriptions ==
    /\ i_calls < MaxInscriptionCalls
    /\ i_res' \in find_all_inscriptions(inscriptions)
    /\ i_op' = [op |-> "find_all_inscriptions"]
    /\ i_prev' = inscriptions
    /\ i_calls' = i_calls + 1
    /\ UNCHANGED <<storeVars, pipeVars, postVars, resVars, codecVars, inscriptions>>

InscNext ==
    \/ \E d \in Reveals, b \in RevealBlocks : StoreNewInscription(d, b)
    \/ \E id \in InscriptionIds, o \in Outpoints_Watched, k \in TransferOffsets :
          UpdateTransferedInscription(id, o, k)
    \/ \E id \in InscriptionIds : RemoveEntryFromInscriptions(id)
    \/ \E o \in Outpoints_Watched : FindInscriptionsAtWachedOutpoint(o)
    \/ FindAllInscriptions

SpecInsc == InscInit /\ [][InscNext]_vars

----------------------------------------------------------------------------
\* Properties of the inscriptions table

\* The last call was op
LastCall(op) == i_calls > 0 /\ i_op.op = op

\* The entries of a query result whose inscription_id is id
EntriesOf(result, id) == {i \in DOMAIN result : result[i][1] = id}

\* C11 (transfer): after update_transfered_inscription(I, O2, k) on a table
\* where I is watched at O1 # O2, no result of
\* find_inscriptions_at_wached_outpoint(O1) contains I, every result of
\* find_inscriptions_at_wached_outpoint(O2) contains I with offset k, and
\* nothing but outpoint_to_watch and offset of row I has changed
C11_Transfer ==
    (/\ LastCall("update_transfered_inscription")
     /\ i_op.inscription_id \in DOMAIN i_prev
     /\ i_prev[i_op.inscription_id].outpoint_to_watch # i_op.outpoint_post_transfer)
        => /\ \A r \in find_inscriptions_at_wached_outpoint(
                            i_prev[i_op.inscription_id].outpoint_to_watch, inscriptions) :
                    r.ok /\ EntriesOf(r.val, i_op.inscription_id) = {}
           /\ \A r \in find_inscriptions_at_wached_outpoint(
                            i_op.outpoint_post_transfer, inscriptions) :
                    /\ r.ok
                    /\ Cardinality(EntriesOf(r.val, i_op.inscription_id)) = 1
                    /\ \A i \in EntriesOf(r.val, i_op.inscription_id) :
                            r.val[i][4] = i_op.offset
           /\ DOMAIN inscriptions = DOMAIN i_prev
           /\ \A id \in DOMAIN i_prev \ {i_op.inscription_id} :
                    inscriptions[id] = i_prev[id]
           /\ \A column \in {"block_height", "block_hash", "ordinal_number",
                             "inscription_number"} :
                    inscriptions[i_op.inscription_id][column]
                        = i_prev[i_op.inscription_id][column]

\* Scenario S4 with a second inscription left at the first outpoint
C11_Witness ==
    /\ LastCall("update_transfered_inscription")
    /\ i_op.inscription_id \in DOMAIN i_prev
    /\ i_prev[i_op.inscription_id].outpoint_to_watch # i_op.outpoint_post_transfer
    /\ i_op.offset = 42
    /\ \E id \in DOMAIN inscriptions \ {i_op.inscription_id} :
            inscriptions[id].outpoint_to_watch
                = i_prev[i_op.inscription_id].outpoint_to_watch

\* C12 (find_all_inscriptions): the call does not fail and returns one entry
\* for every row of the table, in ascending inscription_number order
C12_FindAllInscriptions ==
    LastCall("find_all_inscriptions")
        => /\ i_res.ok
           /\ Len(i_res.val) = Cardinality(DOMAIN inscriptions)
           /\ {i_res.val[i][1] : i \in DOMAIN i_res.val} = DOMAIN inscriptions
           /\ \A i, j \in DOMAIN i_res.val : i < j => i_res.val[i][2] <= i_res.val[j][2]

\* C13 (reveal): a call of store_new_inscription that returns, for an
\* inscription_id not yet in the table, adds exactly one row: outpoint_to_watch
\* followed by the last two characters of satpoint_post_inscription is
\* satpoint_post_inscription, offset is 0, the other columns are the
\* arguments, whatever the inscription numbers already in the table; for an
\* inscription_id already in the table nothing changes
C13_Reveal ==
    (LastCall("store_new_inscription") /\ i_res.ok)
        => IF i_op.inscription_data.inscription_id \in DOMAIN i_prev
           THEN inscriptions = i_prev
           ELSE /\ DOMAIN inscriptions
                     = DOMAIN i_prev \cup {i_op.inscription_data.inscription_id}
                /\ \A id \in DOMAIN i_prev : inscriptions[id] = i_prev[id]
                /\ \E row \in {inscriptions[i_op.inscription_data.inscription_id]} :
                   \E satpoint \in {i_op.inscription_data.satpoint_post_inscription} :
                      /\ row.outpoint_to_watch
                             \o SubSeq(satpoint, Len(satpoint) - 1, Len(satpoint)) = satpoint
                      /\ row.offset = 0
                      /\ row.ordinal_number = i_op.inscription_data.ordinal_number
                      /\ row.inscription_number = i_op.inscription_data.inscription_number
                      /\ row.block_height = i_op.block_identifier.index
                      /\ row.block_hash = i_op.block_identifier.hash

\* A reveal whose marker is not ":0" was stored with an inscription number
\* below one already in the table
C13_Witness ==
    /\ LastCall("store_new_inscription") /\ i_res.ok
    /\ i_op.inscription_data.inscription_id \notin DOMAIN i_prev
    /\ i_op.inscription_data.satpoint_post_inscription = Str("a:10")
    /\ inscriptions[i_op.inscription_data.inscription_id].outpoint_to_watch = Str("a:")
    /\ \E id \in DOMAIN i_prev :
            i_prev[id].inscription_number > i_op.inscription_data.inscription_number

----------------------------------------------------------------------------
\* One turn of the resolver's loop on a given stored block
\*
\* The store holds one compacted block and the resolver stands at the head of
\* its loop on that block, with an offset and a cursor that earlier turns may
\* have left.  The blocks are written as CompactedBlock values:
\*   <<<<coinbase prefix, coinbase_value>>, transactions>>,
\*   a transaction <<prefix, inputs, outputs>>,
\*   an input <<prefix, block height, vout, value>>.

PrefixCB == <<170, 0, 0, 1>>
PrefixT1 == <<1, 1, 1, 1>>
PrefixT2 == <<2, 2, 2, 2>>
PrefixP1 == <<17, 0, 0, 0>>
PrefixP2 == <<18, 0, 0, 0>>
PrefixX == <<9, 9, 9, 8>>

\* One input of 10^8 from height 800000, outputs [5*10^7, 5*10^7]
BlockOneInput ==
    [height |-> 800001,
     block |-> <<<<PrefixCB, 625000000>>,
                 <<<<PrefixT1, <<<<PrefixP1, 800000, 0, 100000000>>>>,
                     <<50000000, 50000000>>>>>>>>]

\* Inputs summing to 10^8, outputs summing to 9*10^7
BlockFee ==
    [height |-> 800001,
     block |-> <<<<PrefixCB, 635000000>>,
                 <<<<PrefixT1, <<<<PrefixP1, 800000, 0, 100000000>>>>,
                     <<90000000>>>>>>>>]

\* Two inputs, three outputs, a fee of 5
BlockTwoInputs ==
    [height |-> 5,
     block |-> <<<<PrefixCB, 10>>,
                 <<<<PrefixT1, <<<<PrefixP1, 3, 1, 30>>, <<PrefixP2, 4, 0, 50>>>>,
                     <<20, 40, 15>>>>>>>>]

\* Two transactions that pay fees of 10 and 5
BlockTwoFees ==
    [height |-> 5,
     block |-> <<<<PrefixCB, 10>>,
                 <<<<PrefixT1, <<<<PrefixP1, 3, 0, 60>>, <<PrefixP2, 4, 0, 40>>>>, <<90>>>>,
                   <<PrefixT2, <<<<PrefixP2, 2, 1, 50>>>>, <<45>>>>>>>>]

\* Two transactions whose ids start with the same four bytes
BlockCollision ==
    [height |-> 5,
     block |-> <<<<PrefixCB, 10>>,
                 <<<<PrefixT1, <<<<PrefixP1, 3, 0, 30>>>>, <<30>>>>,
                   <<PrefixT1, <<<<PrefixP2, 4, 1, 50>>>>, <<50>>>>>>>>]

\* A transaction that pays out more than it takes in
BlockShortInputs ==
    [height |-> 5,
     block |-> <<<<PrefixCB, 10>>,
                 <<<<PrefixT1, <<<<PrefixP1, 3, 0, 10>>>>, <<20, 20>>>>>>>>]

\* A coinbase and nothing else
BlockCoinbaseOnly ==
    [height |-> 5, block |-> <<<<PrefixCB, 10>>, <<>>>>]

TurnBlocks ==
    {BlockOneInput, BlockFee, BlockTwoInputs, BlockTwoFees, BlockCollision,
     BlockShortInputs, BlockCoinbaseOnly}

TurnOffsets == {0, 5, 10, 11, 20, 21, 30, 635000001}

TurnCursors ==
    {<<PrefixCB, 0>>, <<PrefixT1, 0>>, <<PrefixT1, 1>>, <<PrefixT1, 2>>,
     <<PrefixT2, 0>>, <<PrefixX, 0>>}

TurnInit ==
    /\ PipeIdle /\ PostIdle /\ CodecIdle /\ InscIdle
    /\ chain = <<>> /\ r_arg = <<>>
    /\ \E b \in TurnBlocks :
          /\ blocks = insert_entry_in_blocks(EmptyTable, b.height, b.block)
          /\ ordinal_block_number = b.height
    /\ ordinal_offset \in TurnOffsets
    /\ tx_cursor \in TurnCursors
    /\ r_pc = "loop"
    /\ r_prev = None
    /\ r_reads = {}

SpecTurn == TurnInit /\ [][ResolveTurn]_vars

----------------------------------------------------------------------------
\* Properties of one turn of the resolver

\* The last turn read a stored block
TurnTaken == IsSome(r_prev) /\ Unwrap(r_prev).block \in DOMAIN blocks

\* The resolver's state when the last turn began
TurnBefore == Unwrap(r_prev)

\* The block the last turn read
TurnBlock == Unwrap(find_compacted_block_at_block_height(TurnBefore.block, blocks).val)

\* The transactions of that block, in block order, whose prefix is the cursor's
Matches == {i \in 1..Len(TurnBlock[2]) : TurnBlock[2][i][1] = TurnBefore.cursor[1]}

\* The last turn took the branch of the non-coinbase transactions
NormalTurn == TurnTaken /\ TurnBlock[1][1] # TurnBefore.cursor[1]

\* sum(outputs[0..vout]) + offset, for the cursor's vout
SatsOut(tx, vout, offset) ==
    Sum([n \in 1..Len(tx[3]) |-> IF n <= vout THEN tx[3][n] ELSE 0]) + offset

\* The cumulative value of the first j inputs
SatsIn(tx, j) == Sum([n \in 1..j |-> tx[2][n][4]])

\* The inputs at which the cumulative value has reached target
Reaching(tx, target) == {j \in 1..Len(tx[2]) : SatsIn(tx, j) >= target}

\* The next state through input j of tx, for the target sats_out (or
\* total_out)
StepThrough(tx, j, target) ==
    Config(tx[2][j][2],
           target - (SatsIn(tx, j) - tx[2][j][4]),
           <<tx[2][j][1], tx[2][j][3]>>)

\* The next state through the first input that reaches target
StepFrom(tx, target) == StepThrough(tx, MinOf(Reaching(tx, target)), target)

\* C16 (orphan reference): a turn on a block whose coinbase prefix is not the
\* cursor's and that has no transaction with the cursor's prefix ends with
\* the resolver returning an error
C16_OrphanReference ==
    (NormalTurn /\ Matches = {}) => r_pc = "failed"

\* What the code does instead: the turn changes nothing and the loop goes on
OrphanReferenceSpins ==
    (NormalTurn /\ Matches = {}) => Spinning

\* The only transaction with the cursor's prefix
TheMatch == TurnBlock[2][CHOOSE i \in Matches : TRUE]

\* sats_out of the last turn for the transaction tx
TurnSatsOut(tx) == SatsOut(tx, TurnBefore.cursor[2], TurnBefore.offset)

\* C17 (insufficient inputs): a turn that finds one transaction with the
\* cursor's prefix, none of whose inputs brings the cumulative value up to
\* sats_out, ends with the resolver returning an error
C17_InsufficientInputs ==
    (NormalTurn /\ Cardinality(Matches) = 1
        /\ Reaching(TheMatch, TurnSatsOut(TheMatch)) = {})
        => r_pc = "failed"

\* What the code does instead: the turn changes nothing and the loop goes on
InsufficientInputsSpins ==
    (NormalTurn /\ Cardinality(Matches) = 1
        /\ Reaching(TheMatch, TurnSatsOut(TheMatch)) = {})
        => Spinning

\* C18 (normal-transaction step): a turn that finds exactly one transaction
\* with the cursor's prefix, with an input at which the cumulative value
\* reaches sats_out = sum(outputs[0..vout]) + ordinal_offset, does not
\* return and continues from the first such input: ordinal_offset is
\* sats_out less the value of the inputs before it, ordinal_block_number the
\* input's block height, the cursor the input's prefix and vout.  From
\* (800001, 0, (T, 0)) on the block with one input of 10^8 from height 800000
\* and outputs [5*10^7, 5*10^7] the resolver moves to height 800000, offset 0
C18_NormalTransactionStep ==
    /\ (NormalTurn /\ Cardinality(Matches) = 1
            /\ Reaching(TheMatch, TurnSatsOut(TheMatch)) # {})
        => /\ r_pc = "loop"
           /\ \E j \in 1..Len(TheMatch[2]) :
                 /\ SatsIn(TheMatch, j) >= TurnSatsOut(TheMatch)
                 /\ \A k \in 1..(j - 1) : SatsIn(TheMatch, k) < TurnSatsOut(TheMatch)
                 /\ ResolverConfig = StepThrough(TheMatch, j, TurnSatsOut(TheMatch))
    /\ (TurnTaken /\ TurnBefore = Config(800001, 0, <<PrefixT1, 0>>)
            /\ TurnBlock = BlockOneInput.block)
        => /\ r_pc = "loop"
           /\ ResolverConfig = Config(800000, 0, <<PrefixP1, 0>>)

\* The turn went through the second of two inputs, the first of which falls
\* short of sats_out: for vout 1 and offset 11, sats_out is 31, the inputs
\* are worth 30 and 50, the new offset is 1
C18_Witness ==
    /\ NormalTurn
    /\ TurnBlock = BlockTwoInputs.block
    /\ TurnBefore = Config(5, 11, <<PrefixT1, 1>>)
    /\ ResolverConfig = Config(4, 1, <<PrefixP2, 0>>)

\* The example of C18 was resolved
NormalStepExample ==
    /\ TurnTaken /\ TurnBefore = Config(800001, 0, <<PrefixT1, 0>>)
    /\ TurnBlock = BlockOneInput.block
    /\ ResolverConfig = Config(800000, 0, <<PrefixP1, 0>>)

\* The last turn took the branch of the fees: the cursor stands on the
\* coinbase and the offset is not within coinbase_value
FeeTurn ==
    /\ TurnTaken
    /\ TurnBlock[1][1] = TurnBefore.cursor[1]
    /\ TurnBefore.offset >= TurnBlock[1][2]

\* cut_off = ordinal_offset - coinbase_value
CutOff == TurnBefore.offset - TurnBlock[1][2]

\* fee = sum(inputs) - sum(outputs)
FeeOf(tx) == SatsIn(tx, Len(tx[2])) - Sum(tx[3])

\* The fees accumulated over the first k transactions of the block
AccumulatedFees(k) == Sum([n \in 1..k |-> FeeOf(TurnBlock[2][n])])

\* The transactions at which the accumulated fees exceed cut_off
Contributors == {k \in 1..Len(TurnBlock[2]) : AccumulatedFees(k) > CutOff}

\* C19 (fee descent): a turn on the coinbase with ordinal_offset >=
\* coinbase_value, on a block whose transactions up to the fee contributor
\* take in at least what they pay out, does not return and continues from
\* the first transaction t, in block order, at which the accumulated fees
\* exceed cut_off, through the first input j of t at which the cumulative
\* value reaches sum(outputs): ordinal_offset is sum(outputs) less the value
\* of the inputs before j, ordinal_block_number the input's block height, the
\* cursor the input's prefix and vout.  The transactions after t have no
\* part in the result
C19_FeeDescent ==
    (FeeTurn /\ Contributors # {}
        /\ \A k \in 1..MinOf(Contributors) : FeeOf(TurnBlock[2][k]) >= 0)
        => /\ r_pc = "loop"
           /\ \E t \in Contributors :
                 /\ \A k \in 1..(t - 1) : k \notin Contributors
                 /\ \E j \in 1..Len(TurnBlock[2][t][2]) :
                       /\ SatsIn(TurnBlock[2][t], j) >= Sum(TurnBlock[2][t][3])
                       /\ \A k \in 1..(j - 1) :
                              SatsIn(TurnBlock[2][t], k) < Sum(TurnBlock[2][t][3])
                       /\ ResolverConfig =
                              StepThrough(TurnBlock[2][t], j, Sum(TurnBlock[2][t][3]))

\* With coinbase_value 10 and offset 11 the cut_off is 1: the first
\* transaction (fee 10) is the contributor although the second would exceed
\* the cut_off too, and its second input is the one that reaches the 90 paid
\* out
C19_Witness ==
    /\ FeeTurn
    /\ TurnBlock = BlockTwoFees.block
    /\ TurnBefore = Config(5, 11, <<PrefixCB, 0>>)
    /\ ResolverConfig = Config(4, 30, <<PrefixP2, 0>>)

\* Inputs of 10^8, outputs of 9*10^7, offset coinbase_value + 1: the turn
\* descends into the transaction's input
FeeDescentExample ==
    /\ FeeTurn
    /\ TurnBlock = BlockFee.block
    /\ TurnBefore = Config(800001, 635000001, <<PrefixCB, 0>>)
    /\ ResolverConfig = Config(800000, 90000000, <<PrefixP1, 0>>)

\* The first transaction, in block order, with the cursor's prefix
FirstMatch == TurnBlock[2][MinOf(Matches)]

\* C20 (prefix collision): a turn that finds several transactions with the
\* cursor's prefix continues from the first of them in block order, as if
\* the later ones were not there
C20_PrefixCollision ==
    (NormalTurn /\ Cardinality(Matches) >= 2
        /\ Reaching(FirstMatch, TurnSatsOut(FirstMatch)) # {})
        => /\ r_pc = "loop"
           /\ ResolverConfig = StepFrom(FirstMatch, TurnSatsOut(FirstMatch))

\* What the code does instead: the second transaction with the prefix is
\* evaluated too, with the offset and the vout the first one left, and its
\* input is where the resolver continues
LaterMatchApplied ==
    (NormalTurn /\ TurnBlock = BlockCollision.block
        /\ TurnBefore = Config(5, 0, <<PrefixT1, 0>>))
        => ResolverConfig = Config(4, 0, <<PrefixP2, 1>>)

----------------------------------------------------------------------------
\* The pipeline on longer ranges, for the number of raw blocks it holds
\*
\* update_hord_db as in Spec, on an empty store, for a range of WindowRange
\* blocks that starts at the activation height or WindowAbove above it.

\* end_block - start_block
WindowRange == 4
\* Highest start_block: first_inscription_block_height + WindowAbove
WindowAbove == 1

WindowInit ==
    /\ ResIdle /\ CodecIdle /\ InscIdle
    /\ start_block \in first_inscription_block_height
                       .. (first_inscription_block_height + WindowAbove)
    /\ end_block = start_block + WindowRange
    /\ blocks = EmptyTable
    /\ network_thread \in 1..MaxThreads
    /\ block_tx = TRUE
    /\ hash_next = Min(end_block, start_block + network_thread)
    /\ hash_active = HashPoolStart(start_block, end_block, network_thread)
    /\ block_hash_ch = <<>>
    /\ disp_pc = "recv" /\ data_job = None /\ block_data_ch = <<>> /\ rpc_malformed = {}
    /\ comp_pc = "recv" /\ comp_job = None /\ block_compressed_ch = <<>>
    /\ main_pc = "persist" /\ blocks_stored = 0 /\ put_log = <<>>
    /\ PostInit(TRUE)

SpecWindow == WindowInit /\ [][PipeNext]_vars

\* The raw blocks the pipeline holds: in the post-processor's inbox, in its
\* channel, in the channel to the compression thread and in the compaction
\* job
RawBlocksHeld ==
    Cardinality(inbox) + Len(block_ch)
        + Cardinality({i \in 1..Len(block_data_ch) : IsSome(block_data_ch[i])})
        + (IF IsSome(comp_job) /\ Unwrap(comp_job).stage = "compact" THEN 1 ELSE 0)

\* The jobs the stages can run at once: network_thread hash jobs, one
\* retrieval job and one compaction job (each joined before the next)
InFlightBound(threads) == threads + 2

\* C21 (bounded inbox): in every reachable state the raw blocks held in the
\* inbox and between the stages number at most a constant of network_thread
\* (the jobs the stages run at once), whatever end_block - start_block is and
\* wherever start_block lies
C21_BoundedInbox == RawBlocksHeld <= InFlightBound(network_thread)

\* What the code does instead: on a range that starts above the activation
\* height no block ever leaves the inbox, which ends up holding the whole
\* range
InboxKeepsRange ==
    (start_block > first_inscription_block_height /\ main_pc = "returned"
        /\ post_pc = "exited" /\ rpc_malformed = {})
        => Cardinality(inbox) = end_block - start_block

\* The channel to the post-processor never holds the whole range: refuted in
\* SpecWindow, the channel takes every block it is sent
ChannelBelowRange == Len(block_ch) < end_block - start_block

----------------------------------------------------------------------------
\* Order between the persister and the post-processor

\* C22 (persist-before-augment): every height h for which augmentation has
\* been invoked, and every height of [start_block, h), has had its compacted
\* block written by the persister.  put_log only grows, so this holds in
\* every state exactly when each block was written before its augmentation
C22_PersistBeforeAugment ==
    \A i \in 1..Len(augmented) :
        \A h \in start_block .. augmented[i] : h \in Persisted

\* What the code guarantees: a block handed to a collaborator has been
\* compacted, its compacted form being on its way to the persister or stored
CompactedBeforeAugment ==
    \A i \in 1..Len(standardized) :
        \/ standardized[i] \in Persisted
        \/ \E k \in 1..Len(block_compressed_ch) :
              block_compressed_ch[k] = Some(standardized[i])
        \/ comp_job = Some([height |-> standardized[i], stage |-> "emit"])

----------------------------------------------------------------------------
\* The offset after a hop of the resolver

\* The last turn moved the resolver to an input of the block it read
Hopped == r_pc = "loop" /\ IsSome(r_prev) /\ ResolverConfig # Unwrap(r_prev)

\* The inputs of the block read by the last turn that the resolver may have
\* moved to: those with the prefix, block height and vout it now stands at
SelectedInputs ==
    LET txs == CoinbaseValueBlock(Unwrap(r_prev).block)[2]
    IN  {input \in UNION {Range(txs[t][2]) : t \in 1..Len(txs)} :
            /\ input[1] = tx_cursor[1]
            /\ input[2] = ordinal_block_number
            /\ input[3] = tx_cursor[2]}

\* C23 (offset inside the referenced output): after every hop the new
\* ordinal_offset is at least 0 (the subtraction did not underflow) and
\* strictly below the value of the input the resolver moved to
C23_OffsetInsideOutput ==
    Hopped => /\ ordinal_offset >= 0
              /\ \A input \in SelectedInputs : ordinal_offset < input[4]

\* What the code guarantees: no underflow, and an offset of at most the value
OffsetAtMostValue ==
    Hopped => /\ ordinal_offset >= 0
              /\ SelectedInputs # {}
              /\ \A input \in SelectedInputs : ordinal_offset <= input[4]

\* C23 for inputs of positive value only: refuted in SpecRes as well, by an
\* offset equal to the value of the input
OffsetInsidePositiveOutput ==
    (Hopped /\ \A input \in SelectedInputs : input[4] > 0)
        => \A input \in SelectedInputs : ordinal_offset < input[4]

----------------------------------------------------------------------------
\* Order of the blocks through the stages

\* The heights in a channel, its sentinels left out
HeightsIn(ch) ==
    LET pairs == SelectSeq(ch, IsSome)
    IN  [i \in 1..Len(pairs) |-> Unwrap(pairs[i])]

\* The blocks of the pipeline from the persisted ones back to the pairs that
\* stage 1 has emitted last: what was stored, what waits for the persister,
\* the block in the compaction job, what waits for the compression thread,
\* the block in the retrieval job, what waits for the dispatcher
PipelineOrder ==
    put_log
        \o HeightsIn(block_compressed_ch)
        \o (IF IsSome(comp_job) THEN <<Unwrap(comp_job).height>> ELSE <<>>)
        \o HeightsIn(block_data_ch)
        \o (IF IsSome(data_job) THEN <<Unwrap(data_job)>> ELSE <<>>)
        \o HeightsIn(block_hash_ch)

\* seq without its element at position i
WithoutAt(seq, i) == SubSeq(seq, 1, i - 1) \o SubSeq(seq, i + 1, Len(seq))

\* C24 (stage serialization): a retrieval job or a compaction job is in
\* flight only while its thread waits in the join, so there is at most one
\* of each whatever network_thread is; and no block overtakes another on its
\* way to the store: a step leaves the order of the blocks in the pipeline
\* as it is, or puts a newly emitted (height, hash) pair behind all others,
\* or drops the block whose compaction failed.  The blocks are therefore
\* persisted in the order in which stage 1 emitted them, and when the call
\* has returned that order is the whole of put_log
C24_StageSerialization ==
    /\ []((IsSome(data_job) => disp_pc = "join")
          /\ (IsSome(comp_job) => comp_pc = "join")
          /\ (FetchReturned => PipelineOrder = put_log))
    /\ [][\/ PipelineOrder' = PipelineOrder
          \/ \E h \in hash_active : PipelineOrder' = Append(PipelineOrder, h)
          \/ /\ IsSome(comp_job) /\ ~IsSome(comp_job')
             /\ Unwrap(comp_job).height \in rpc_malformed
             /\ PipelineOrder' = WithoutAt(PipelineOrder,
                                           Len(put_log) + Len(HeightsIn(block_compressed_ch)) + 1)
         ]_vars

\* With two network threads the pair of the higher block was emitted first,
\* and the two blocks were persisted in that order
C24_Witness ==
    /\ network_thread = 2
    /\ main_pc = "returned"
    /\ put_log = <<start_block + 1, start_block>>
    /\ rpc_malformed = {}

----------------------------------------------------------------------------
\* An insert into blocks for a height that has a row

\* The row of start_block is the one the store had before the call
StaleRow ==
    /\ start_block \in DOMAIN blocks
    /\ blocks[start_block] = to_hex_bytes(StaleBlock)

\* insert_entry_in_blocks was called for start_block, which had its row
FailedInsert == StaleRow /\ start_block \in Persisted

\* C25 (failed insert leaves the store unchanged): a call of
\* insert_entry_in_blocks for a height that has a row leaves the blocks table
\* as it was, and the persister counts the block all the same; so after such
\* a call, while every block compacts, the ingest has returned with
\* end_block - start_block blocks counted once no thread can take a step
C25_FailedInsertUnchanged ==
    /\ [][(put_log' # put_log /\ put_log'[Len(put_log')] \in DOMAIN blocks)
            => /\ blocks' = blocks
               /\ blocks_stored' = blocks_stored + 1]_vars
    /\ []((rpc_malformed = {} /\ PipeQuiescent /\ FailedInsert)
            => /\ FetchReturned
               /\ blocks_stored = end_block - start_block
               /\ Len(put_log) = blocks_stored)

\* The store had a row for start_block; the insert for it failed, the other
\* block of the range was stored, and the ingest returned
C25_Witness ==
    /\ FailedInsert
    /\ FetchReturned
    /\ end_block = start_block + 2
    /\ put_log[1] = start_block
    /\ DOMAIN blocks = {start_block, start_block + 1}

====
